---- MODULE Spec2Model ----
(***************************************************************************)
(* State Chart Engine (src/sce.py): the hierarchical state machine engine  *)
(* StateChartEngine with FiniteState behaviours, driven by a polling loop. *)
(*                                                                         *)
(* The engine is exercised on a three-level chart whose states use the     *)
(* default FiniteState hooks; every transition check reads one boolean of  *)
(* the caller's application data, which the caller may rewrite between     *)
(* iterate calls.  Every lifecycle hook call is recorded in a call log.    *)
(***************************************************************************)
EXTENDS Integers, Sequences, FiniteSets, TLC

\* ----------------------------------------------------------------- bounds
\* iterate pushes a nested state's target on top of the remaining ancestors,
\* so the active stack can grow without limit; runs are cut at this depth.
MaxDepth == 4

\* the number of states of the chart definitions given to the constructor
\* when its consistency check is examined
MaxChartStates == 2

\* ------------------------------------------------------------- state ids
\* Enum members; Terminating is the reserved ordinal 0 (sce.py:287).
Terminating == 0
Outer == 1
Middle == 2
Inner == 3
InnerAlt == 4
Solo == 5

\* the value steady/transitioning return for "stay" (Python None)
NoneID == -1

Last(s) == s[Len(s)]
Front(s) == SubSeq(s, 1, Len(s) - 1)
Range(s) == {s[i] : i \in DOMAIN s}
Occurrences(s, id) == Cardinality({i \in DOMAIN s : s[i] = id})

\* ------------------------------------------------------------- the chart
\* A state chart definition in the format of sce.py:500-505 with three levels:
\* Outer > Middle > {Inner, InnerAlt}, and the top-level leaf Solo.
STATE_CHART ==
    (Outer :> [stateClass |-> "OuterState", defaultChild |-> Middle]) @@
    (Middle :> [stateClass |-> "MiddleState", parent |-> Outer, defaultChild |-> Inner]) @@
    (Inner :> [stateClass |-> "InnerState", parent |-> Middle]) @@
    (InnerAlt :> [stateClass |-> "InnerAltState", parent |-> Middle]) @@
    (Solo :> [stateClass |-> "SoloState"])

StateIds == DOMAIN STATE_CHART

\* the keys of the application data read by the transition checks
Keys == {"a1", "a2", "m1", "i1", "i2", "x1", "s1", "s2"}

AppData == [Keys -> BOOLEAN]

\* what the calling loop may do to the data between two iterate calls: leave
\* it alone or reassign one entry (sce.py:516-517 reassigns "panicked").
CallerChanges(d) == {d} \cup {[d EXCEPT ![k] = ~d[k]] : k \in Keys}

\* set_transitions: per state, the ordered list of (stateID, check) pairs
\* each state class installs in its constructor.
TRANSITIONS ==
    (Outer :> << [stateID |-> Solo, check |-> "a1"],
                 [stateID |-> Terminating, check |-> "a2"] >>) @@
    (Middle :> << [stateID |-> Solo, check |-> "m1"] >>) @@
    (Inner :> << [stateID |-> InnerAlt, check |-> "i1"],
                 [stateID |-> Terminating, check |-> "i2"] >>) @@
    (InnerAlt :> << [stateID |-> Inner, check |-> "x1"] >>) @@
    (Solo :> << [stateID |-> Outer, check |-> "s1"],
                [stateID |-> InnerAlt, check |-> "s2"] >>)

\* --------------------------------------------------------------- state
VARIABLES
    stack,        \* StateChartEngine._state: the active path, root first
    instances,    \* keys of StateChartEngine._state_instances
    app_data,     \* the caller's shared application data
    log,          \* the hook calls and frame returns of the last engine call
    prev,         \* the active path when the last engine call started
    call,         \* the last engine call the caller made, with its argument
    result,       \* outcome of the last iterate call
    pc,           \* position of the calling loop
    balance,      \* per state: entry calls minus exit calls since construction
    definition,   \* the state chart given to the constructor, in dict order
    ctor,         \* outcome of the constructor: ok or the exception raised
    constructions,\* per state: behaviour objects constructed since construction
    attrs         \* the counters the demo's behaviour objects keep

vars == <<stack, instances, app_data, log, prev, call, result, pc, balance,
          definition, ctor, constructions, attrs>>

\* one recorded event: a hook call ("entry", "steady", "exit") or the return
\* of an iterate frame ("return"); the state it concerns; the active stack at
\* that moment; the iterate level of the frame (-1 outside iterate); the
\* transition request involved (returned by steady, applied by exit/entry,
\* held by the returning frame); whether current_data was passed to the hook;
\* the value a frame returns.
LogEntry(op, id, stk, level, req, arg, ret) ==
    [op |-> op, id |-> id, stk |-> stk, level |-> level, req |-> req,
     arg |-> arg, ret |-> ret]

\* the charts without counting states have no counters
NoAttrs == <<>>

\* the engine's mutable fields threaded through the calls, with the ids of the
\* behaviour objects constructed during the call and the number of steady
\* calls left before one raises (0: none does)
Engine(stk, inst, lg) ==
    [stack |-> stk, inst |-> inst, log |-> lg, err |-> "none", made |-> <<>>, ouch |-> 0]

\* an engine that catches what a hook raises and carries on
propagate_swallowed(e, exc) == [e |-> e, terminate |-> FALSE]

\* iterate has no try/except: an exception raised inside it unwinds every
\* frame up to the caller.
propagate(e, exc) == [e |-> [e EXCEPT !.err = exc], terminate |-> FALSE]

\* an iterate that returns False when there is no state at its level
index_error_ignored(e) == [e |-> e, terminate |-> FALSE]

\* iterate, line 235: self._state[level] on a list that short raises IndexError.
index_error(e) == [e |-> [e EXCEPT !.err = "IndexError"], terminate |-> FALSE]

\* ------------------------------------------------------------ FiniteState
\* a transitioning in which a later true check overrides an earlier one
RECURSIVE transitioning_last_wins(_, _)
transitioning_last_wins(transitions, current_data) ==
    IF transitions = <<>> THEN NoneID
    ELSE IF current_data[Last(transitions).check]
         THEN Last(transitions).stateID
         ELSE transitioning_last_wins(Front(transitions), current_data)

\* FiniteState.transitioning: checks in list order, first true one wins.
RECURSIVE transitioning(_, _)
transitioning(transitions, current_data) ==
    IF transitions = <<>> THEN NoneID
    ELSE IF current_data[Head(transitions).check]
         THEN Head(transitions).stateID
         ELSE transitioning(Tail(transitions), current_data)

\* FiniteState.steady: logs, then returns transitioning(current_data).
steady(state_id, current_data) ==
    transitioning(TRANSITIONS[state_id], current_data)

\* ------------------------------------------------------- StateChartEngine
\* the outcome of check(): normal return, or the exception with its fields
Outcome(status, parent, child) == [status |-> status, parent |-> parent, child |-> child]

\* check, lines 138-140 with the test inverted: "if parent_id in ..."
parent_missing_inverted(chart, child_id) ==
    /\ "parent" \in DOMAIN chart[child_id]
    /\ chart[child_id].parent \in DOMAIN chart

\* check, lines 138-140: the child names a parent that is no key.
parent_missing(chart, child_id) ==
    /\ "parent" \in DOMAIN chart[child_id]
    /\ chart[child_id].parent \notin DOMAIN chart

\* check, lines 136-141: the first loop, over the keys in dict order.
RECURSIVE check_parents(_, _)
check_parents(chart, order) ==
    IF order = <<>> THEN Outcome("ok", NoneID, NoneID)
    ELSE IF parent_missing(chart, Head(order))
         THEN Outcome("InconsistentStateChart", chart[Head(order)].parent, Head(order))
         ELSE check_parents(chart, Tail(order))

\* check, line 150 with the comparison turned around: "=="
disowned_inverted(child_info, parent_id) == child_info.parent = parent_id

\* check, line 150: the child names another parent.
disowned(child_info, parent_id) == child_info.parent # parent_id

\* check, lines 143-151: the second loop; child_info["parent"] raises
\* KeyError when the default child declares no parent.
RECURSIVE check_default_children(_, _)
check_default_children(chart, order) ==
    IF order = <<>> THEN Outcome("ok", NoneID, NoneID)
    ELSE
      LET parent_id == Head(order)
          parent_info == chart[parent_id]
      IN IF "defaultChild" \notin DOMAIN parent_info
         THEN check_default_children(chart, Tail(order))
         ELSE LET child_id == parent_info.defaultChild IN
              IF child_id \notin DOMAIN chart
              THEN Outcome("InconsistentStateChart", parent_id, child_id)
              ELSE IF "parent" \notin DOMAIN chart[child_id]
              THEN Outcome("KeyError", parent_id, child_id)
              ELSE IF disowned(chart[child_id], parent_id)
              THEN Outcome("InconsistentStateChart", parent_id, child_id)
              ELSE check_default_children(chart, Tail(order))

\* StateChartEngine.check
check(chart, order) ==
    LET first == check_parents(chart, order) IN
    IF first.status # "ok" THEN first ELSE check_default_children(chart, order)

\* a state_instance without the cache test: a new object on every call
state_instance_always_new(e, state_id) ==
    IF state_id \notin DOMAIN STATE_CHART THEN [e EXCEPT !.err = "KeyError"]
    ELSE [e EXCEPT !.inst = @ \cup {state_id}, !.made = Append(@, state_id)]

\* state_instance: create the behaviour object on first reference.
state_instance(e, state_id) ==
    IF state_id \in e.inst THEN e
    ELSE IF state_id \notin DOMAIN STATE_CHART THEN [e EXCEPT !.err = "KeyError"]
    ELSE [e EXCEPT !.inst = @ \cup {state_id}, !.made = Append(@, state_id)]

\* a _set_state that pushes the state before calling its entry hook
RECURSIVE set_state_push_first(_, _, _, _, _)
set_state_push_first(e, state_id, arg, level, req) ==
    LET e1 == state_instance(e, state_id) IN
    IF e1.err # "none" THEN e1
    ELSE
      LET e2 == [e1 EXCEPT
                   !.stack = Append(@, state_id),
                   !.log = Append(@, LogEntry("entry", state_id, Append(e1.stack, state_id),
                                              level, req, arg, ""))]
          state_info == STATE_CHART[state_id]
      IN IF Len(e2.stack) > MaxDepth THEN [e2 EXCEPT !.err = "bound"]
         ELSE IF "defaultChild" \in DOMAIN state_info
         THEN set_state_push_first(e2, state_info.defaultChild, "None", level, req)
         ELSE e2

\* _set_state: entry hook, push, then init(defaultChild) without data.
RECURSIVE set_state(_, _, _, _, _)
set_state(e, state_id, arg, level, req) ==
    LET e1 == state_instance(e, state_id) IN
    IF e1.err # "none" THEN e1
    ELSE
      LET e2 == [e1 EXCEPT
                   !.log = Append(@, LogEntry("entry", state_id, e1.stack, level, req,
                                              arg, "")),
                   !.stack = Append(@, state_id)]
          state_info == STATE_CHART[state_id]
      IN IF Len(e2.stack) > MaxDepth THEN [e2 EXCEPT !.err = "bound"]
         ELSE IF "defaultChild" \in DOMAIN state_info
         THEN set_state(e2, state_info.defaultChild, "None", level, req)
         ELSE e2

\* init: _set_state(state_id) with no application data.
init(e, state_id) == set_state(e, state_id, "None", -1, NoneID)

\* an exit loop that forgets the descendants: it calls exit on the requesting
\* state alone and drops everything above it
exit_states_requester_only(e, level, state_index, req) ==
    IF state_index < level THEN e
    ELSE
      LET this_id == e.stack[level + 1]
          e1 == state_instance(e, this_id)
      IN [e1 EXCEPT
            !.log = Append(@, LogEntry("exit", this_id, e1.stack, level, req, "data", "")),
            !.stack = SubSeq(@, 1, level)]

\* an exit loop that ignores the level of the requesting frame and empties
\* the whole stack: "range(0, num_states)"
RECURSIVE exit_states_all(_, _, _, _)
exit_states_all(e, level, state_index, req) ==
    IF state_index < 0 THEN e
    ELSE
      LET this_id == e.stack[state_index + 1]
          e1 == state_instance(e, this_id)
          e2 == [e1 EXCEPT
                   !.log = Append(@, LogEntry("exit", this_id, e1.stack, level, req,
                                              "data", "")),
                   !.stack = Front(@)]
      IN exit_states_all(e2, level, state_index - 1, req)

\* iterate, lines 242-245: exit and pop from the top down to index level.
RECURSIVE exit_states(_, _, _, _)
exit_states(e, level, state_index, req) ==
    IF state_index < level THEN e
    ELSE
      LET this_id == e.stack[state_index + 1]
          e1 == state_instance(e, this_id)
          e2 == [e1 EXCEPT
                   !.log = Append(@, LogEntry("exit", this_id, e1.stack, level, req,
                                              "data", "")),
                   !.stack = Front(@)]
      IN exit_states(e2, level, state_index - 1, req)

\* a body that empties the stack for the terminal id without reporting it
apply_transition_unreported(e, level, new_state_id) ==
    LET num_states == Len(e.stack)
        e3 == exit_states(e, level, num_states - 1, new_state_id)
    IN IF new_state_id = 0
       THEN [e |-> e3, terminate |-> FALSE]
       ELSE [e |-> set_state(e3, new_state_id, "data", level, new_state_id),
             terminate |-> FALSE]

\* iterate, lines 241-249: the body of "if not terminate and new_state_id".
apply_transition(e, level, new_state_id) ==
    LET num_states == Len(e.stack)
        e3 == exit_states(e, level, num_states - 1, new_state_id)
    IN IF new_state_id = 0
       THEN [e |-> e3, terminate |-> TRUE]
       ELSE [e |-> set_state(e3, new_state_id, "data", level, new_state_id),
             terminate |-> FALSE]

\* iterate, line 250: the frame returns terminate (nothing returns once an
\* exception is propagating).
iterate_return(r, cur_state_id, level, new_state_id) ==
    IF r.e.err # "none" THEN r
    ELSE [r EXCEPT !.e.log = Append(@,
             LogEntry("return", cur_state_id, r.e.stack, level, new_state_id, "",
                      IF r.terminate THEN "True" ELSE "False"))]

\* a condition that forgets to test the request: "if not terminate:"
applies_without_request(terminate, new_state_id) == ~terminate

\* iterate, line 240: the condition under which the request is applied.
applies(terminate, new_state_id) == ~terminate /\ new_state_id # NoneID

\* iterate(current_data, level) and its for loop over range(level+1, len),
\* each pass of which overwrites terminate.
RECURSIVE iterate(_, _, _)
RECURSIVE iterate_loop(_, _, _, _)
iterate_loop(r, current_data, level, n) ==
    IF n = 0 \/ r.e.err # "none" THEN r
    ELSE iterate_loop(iterate(r.e, current_data, level + 1), current_data, level, n - 1)

iterate(e, current_data, level) ==
    IF level + 1 > Len(e.stack)
    THEN index_error(e)
    ELSE
      LET cur_state_id == e.stack[level + 1]
          e1 == state_instance(e, cur_state_id)
          new_state_id == steady(cur_state_id, current_data)
          e2 == [e1 EXCEPT
                   !.log = Append(@, LogEntry("steady", cur_state_id, e1.stack, level,
                                              new_state_id, "data", "")),
                   !.ouch = IF @ > 0 THEN @ - 1 ELSE @]
          r == iterate_loop([e |-> e2, terminate |-> FALSE], current_data, level,
                            Len(e2.stack) - (level + 1))
      IN IF e1.ouch = 1
         THEN propagate([e1 EXCEPT
                           !.log = Append(@, LogEntry("steady", cur_state_id, e1.stack,
                                                      level, NoneID, "data", "raise")),
                           !.ouch = 0],
                        "BitTongueError")
         ELSE IF r.e.err # "none" THEN r
         ELSE IF applies(r.terminate, new_state_id)
         THEN iterate_return(apply_transition(r.e, level, new_state_id),
                             cur_state_id, level, new_state_id)
         ELSE iterate_return(r, cur_state_id, level, new_state_id)

\* entry calls minus exit calls on a state among the hook calls of one log
HookDelta(lg, state_id) ==
    Cardinality({i \in DOMAIN lg : lg[i].op = "entry" /\ lg[i].id = state_id})
    - Cardinality({i \in DOMAIN lg : lg[i].op = "exit" /\ lg[i].id = state_id})

\* ----------------------------------------------------------------- actions
\* StateChartEngine.__init__ on a chart that passes check().
Init ==
    /\ stack = <<>>
    /\ instances = {}
    /\ app_data \in AppData
    /\ log = <<>>
    /\ prev = <<>>
    /\ call = [op |-> "none", state_id |-> NoneID]
    /\ result = "none"
    /\ pc = "constructed"
    /\ balance = [id \in StateIds |-> 0]
    /\ definition = [chart |-> STATE_CHART,
                     order |-> <<Outer, Middle, Inner, InnerAlt, Solo>>]
    /\ ctor = check(definition.chart, definition.order)
    /\ ctor.status = "ok"
    /\ constructions = [id \in StateIds |-> 0]
    /\ attrs = NoAttrs

\* the caller's sce.init(state_id), once, before the loop
InitCall(state_id) ==
    /\ pc = "constructed"
    /\ LET e == init(Engine(stack, instances, <<>>), state_id) IN
       /\ e.err = "none"
       /\ stack' = e.stack
       /\ instances' = e.inst
       /\ log' = e.log
       /\ balance' = [id \in StateIds |-> balance[id] + HookDelta(e.log, id)]
       /\ constructions' = [id \in StateIds |->
                               constructions[id] + Occurrences(e.made, id)]
    /\ prev' = stack
    /\ call' = [op |-> "init", state_id |-> state_id]
    /\ result' = "none"
    /\ pc' = "running"
    /\ UNCHANGED <<app_data, definition, ctor, attrs>>

\* one pass of the caller's loop: the data may have changed since the last
\* call; terminated = sce.iterate(app_data).  An exception ends the program.
Iterated(e0, d) ==
    /\ LET r == iterate(e0, d, 0) IN
       /\ r.e.err # "bound"
       /\ stack' = r.e.stack
       /\ instances' = r.e.inst
       /\ log' = r.e.log
       /\ balance' = [id \in StateIds |-> balance[id] + HookDelta(r.e.log, id)]
       /\ constructions' = [id \in StateIds |->
                               constructions[id] + Occurrences(r.e.made, id)]
       /\ result' = IF r.e.err # "none" THEN r.e.err
                    ELSE IF r.terminate THEN "True" ELSE "False"
       /\ pc' = IF r.e.err # "none" THEN "crashed"
                ELSE IF r.terminate THEN "terminated" ELSE "running"
    /\ app_data' = d
    /\ prev' = stack
    /\ call' = [op |-> "iterate", state_id |-> NoneID]
    /\ UNCHANGED <<definition, ctor, attrs>>

IterateCall(d) ==
    /\ pc = "running"
    /\ Iterated(Engine(stack, instances, <<>>), d)

Next ==
    \/ \E state_id \in StateIds : InitCall(state_id)
    \/ \E d \in CallerChanges(app_data) : IterateCall(d)

Spec == Init /\ [][Next]_vars

\* ------------------------------------------- calls outside the demo's order
\* sce.state_instance(state_id) called by the application, at any time the
\* engine exists and the program has not died.
StateInstanceCall(state_id) ==
    /\ pc \in {"constructed", "running", "terminated"}
    /\ LET e == state_instance(Engine(stack, instances, <<>>), state_id) IN
       /\ instances' = e.inst
       /\ constructions' = [id \in StateIds |->
                               constructions[id] + Occurrences(e.made, id)]
    /\ log' = <<>>
    /\ prev' = stack
    /\ call' = [op |-> "state_instance", state_id |-> state_id]
    /\ result' = "instance"
    /\ UNCHANGED <<stack, app_data, pc, balance, definition, ctor, attrs>>

\* sce.iterate(app_data) called before sce.init
EarlyIterateCall(d) ==
    /\ pc = "constructed"
    /\ Iterated(Engine(stack, instances, <<>>), d)

\* the application data of these runs: the checks of Outer, of Inner and the
\* way back from Solo vary, the other checks stay false
ApiKeys == {"a1", "a2", "i1", "s1"}

ApiChanges(d) == {c \in CallerChanges(d) : \A k \in Keys \ ApiKeys : ~c[k]}

InitApi ==
    /\ Init
    /\ \A k \in Keys \ ApiKeys : ~app_data[k]

NextApi ==
    \/ \E state_id \in StateIds : InitCall(state_id)
    \/ \E d \in ApiChanges(app_data) : IterateCall(d)
    \/ \E state_id \in StateIds : StateInstanceCall(state_id)
    \/ \E d \in ApiChanges(app_data) : EarlyIterateCall(d)

SpecApi == InitApi /\ [][NextApi]_vars

\* ------------------------------------------------- a steady hook that raises
\* which steady call of one iterate call raises, counted from its first
RaisePositions == 1..(MaxDepth + 1)

\* one pass of the caller's loop, on the data of the pass before, in which a
\* steady hook has the bad luck of ChewingGumState.steady; the caller catches
\* the error and ends the loop.
IterateRaiseCall(ouch) ==
    /\ pc = "running"
    /\ Iterated([Engine(stack, instances, <<>>) EXCEPT !.ouch = ouch], app_data)

NextRaise ==
    \/ Next
    \/ \E ouch \in RaisePositions : IterateRaiseCall(ouch)

SpecRaise == Init /\ [][NextRaise]_vars

\* ------------------------------------------------- construction alone
\* The constructor on every chart definition of MaxChartStates states whose
\* parent and defaultChild entries are absent, a key, or an id that is no key.
ChartKeys == 1..MaxChartStates
MissingKey == MaxChartStates + 1

StateInfo(parent, child) ==
    [stateClass |-> "FiniteState"]
    @@ (IF parent = NoneID THEN <<>> ELSE [parent |-> parent])
    @@ (IF child = NoneID THEN <<>> ELSE [defaultChild |-> child])

References == ChartKeys \cup {MissingKey, NoneID}

Charts ==
    {[k \in ChartKeys |-> StateInfo(ps[k], cs[k])] :
        ps \in [ChartKeys -> References], cs \in [ChartKeys -> References]}

\* the orders in which the dict may yield its keys
KeyOrders ==
    {o \in [ChartKeys -> ChartKeys] : \A i, j \in ChartKeys : o[i] = o[j] => i = j}

\* before the constructor runs there is no engine object
InitCheck ==
    /\ definition \in [chart : Charts, order : KeyOrders]
    /\ ctor = Outcome("none", NoneID, NoneID)
    /\ pc = "start"
    /\ stack = <<NoneID>>
    /\ instances = {NoneID}
    /\ app_data = [k \in Keys |-> FALSE]
    /\ log = <<>>
    /\ prev = <<>>
    /\ call = [op |-> "none", state_id |-> NoneID]
    /\ result = "none"
    /\ balance = [id \in StateIds |-> 0]
    /\ constructions = [id \in StateIds |-> 0]
    /\ attrs = NoAttrs

\* StateChartEngine(state_chart): the fields are set, then check() runs; an
\* exception leaves the caller without an engine.
Construct ==
    /\ pc = "start"
    /\ stack' = <<>>
    /\ instances' = {}
    /\ ctor' = check(definition.chart, definition.order)
    /\ pc' = IF ctor'.status = "ok" THEN "constructed" ELSE "failed"
    /\ UNCHANGED <<app_data, log, prev, call, result, balance, definition,
                   constructions, attrs>>

\* _set_state and init (lines 177-200) on the chart given to the constructor:
\* state_instance, entry, push, then init(defaultChild).  Nothing stops the
\* recursion but a state without defaultChild, so a chain that comes back to
\* a state it has entered goes round until the interpreter gives up with
\* RecursionError; the model stops at the second entry of that state.
RECURSIVE set_state_chart(_, _, _, _)
set_state_chart(chart, e, state_id, seen) ==
    LET e1 == IF state_id \in e.inst THEN e
              ELSE [e EXCEPT !.inst = @ \cup {state_id}, !.made = Append(@, state_id)]
        e2 == [e1 EXCEPT
                 !.log = Append(@, LogEntry("entry", state_id, e1.stack, -1, NoneID,
                                            "None", "")),
                 !.stack = Append(@, state_id)]
    IN IF state_id \in seen THEN [e2 EXCEPT !.err = "RecursionError"]
       ELSE IF "defaultChild" \in DOMAIN chart[state_id]
       THEN set_state_chart(chart, e2, chart[state_id].defaultChild, seen \cup {state_id})
       ELSE e2

\* the caller's sce.init(state_id) on an engine whose chart passed check()
ChartInitCall(state_id) ==
    /\ pc = "constructed"
    /\ state_id \in DOMAIN definition.chart
    /\ LET e == set_state_chart(definition.chart, Engine(stack, instances, <<>>),
                                state_id, {}) IN
       /\ stack' = e.stack
       /\ instances' = e.inst
       /\ log' = e.log
       /\ balance' = [id \in StateIds |-> balance[id] + HookDelta(e.log, id)]
       /\ constructions' = [id \in StateIds |->
                               constructions[id] + Occurrences(e.made, id)]
       /\ result' = e.err
       /\ pc' = IF e.err # "none" THEN "crashed" ELSE "running"
    /\ prev' = stack
    /\ call' = [op |-> "init", state_id |-> state_id]
    /\ UNCHANGED <<app_data, definition, ctor, attrs>>

NextCheck ==
    \/ Construct
    \/ \E state_id \in ChartKeys : ChartInitCall(state_id)

SpecCheck == InitCheck /\ [][NextCheck]_vars

\* ------------------------------------------------------- the demo chart
\* AppStates of the demo (Terminating is 0, as above)
Sitting == 1
Walking == 2
Running == 3
ChewingGum == 4
Whistling == 5

\* the chart of the demo program, in the order it is filled
DEMO_CHART ==
    (Sitting    :> [stateClass |-> "SittingState"]) @@
    (Walking    :> [defaultChild |-> ChewingGum, stateClass |-> "WalkingState"]) @@
    (Running    :> [stateClass |-> "RunningState"]) @@
    (ChewingGum :> [parent |-> Walking, stateClass |-> "ChewingGumState"]) @@
    (Whistling  :> [parent |-> Walking, stateClass |-> "WhistlingState"])

\* app_data of the demo: three flags
DemoData == [tired : BOOLEAN, panicked : BOOLEAN, restless : BOOLEAN]

\* the cap of the counters that nothing resets while their state stays
\* active; the code compares them with 5 only
CountCap == 7

Count(c) == IF c >= CountCap THEN CountCap ELSE c + 1

\* the counters as the constructors of the state classes set them
\* (sittingCount is None until Sitting is entered)
DemoAttrs ==
    [sittingCount |-> NoneID, runCount |-> 0, chewingGumCount |-> 0, whistleCount |-> 0]

\* the mutable fields of an engine with its application threaded through the
\* calls: which program's state classes it runs, its chart, the data, the
\* state objects' attributes, and what chance decides during the call
Machine(prog, chart, stk, inst, data, at, luck) ==
    [prog |-> prog, chart |-> chart, stack |-> stk, inst |-> inst, log |-> <<>>,
     err |-> "none", made |-> <<>>, data |-> data, attrs |-> at, luck |-> luck]

\* a SittingState without its first check
sitting_transitioning_running_only(d) ==
    IF d.panicked /\ ~d.tired THEN Running ELSE NoneID

\* SittingState: check_walking, then check_running
sitting_transitioning(d) ==
    IF ~d.panicked /\ d.restless /\ ~d.tired THEN Walking
    ELSE IF d.panicked /\ ~d.tired THEN Running
    ELSE NoneID

\* WalkingState: check_sitting, then check_running
walking_transitioning(d) ==
    IF ~d.restless /\ ~d.panicked /\ d.tired THEN Sitting
    ELSE IF d.panicked THEN Running
    ELSE NoneID

\* RunningState: check_sitting, then check_walking
running_transitioning(d) ==
    IF d.tired /\ d.panicked THEN Sitting
    ELSE IF ~d.tired /\ ~d.panicked THEN Walking
    ELSE NoneID

\* a Sitting that never gets restless
sitting_steady_data_untouched(count, d) == d

\* SittingState.steady, lines 401-403: after more than 5 calls the data is
\* changed in place.
sitting_steady_data(count, d) ==
    IF count > 5 THEN [d EXCEPT !.restless = TRUE, !.tired = FALSE] ELSE d

\* the steady hook of each state class: the counters, the data it changes in
\* place, the exception or the request it returns
demo_steady(m, state_id) ==
    IF state_id = Sitting THEN
        IF m.attrs.sittingCount = NoneID
        THEN [m |-> [m EXCEPT !.err = "TypeError"], req |-> NoneID]
        ELSE LET c == Count(m.attrs.sittingCount)
                 d == sitting_steady_data(c, m.data)
             IN [m |-> [m EXCEPT !.attrs.sittingCount = c, !.data = d],
                 req |-> sitting_transitioning(d)]
    ELSE IF state_id = Walking THEN
        [m |-> m, req |-> walking_transitioning(m.data)]
    ELSE IF state_id = Running THEN
        LET d == IF m.attrs.runCount > 5
                 THEN [m.data EXCEPT !.tired = TRUE, !.restless = FALSE]
                 ELSE m.data
        IN [m |-> [m EXCEPT !.attrs.runCount = Count(@), !.data = d],
            req |-> running_transitioning(d)]
    ELSE IF state_id = ChewingGum THEN
        LET c == Count(m.attrs.chewingGumCount) IN
        IF m.luck
        THEN [m |-> [m EXCEPT !.attrs.chewingGumCount = c, !.err = "BitTongueError"],
              req |-> NoneID]
        ELSE [m |-> [m EXCEPT !.attrs.chewingGumCount = c],
              req |-> IF c < 5 THEN NoneID ELSE Whistling]
    ELSE
        LET c == Count(m.attrs.whistleCount) IN
        [m |-> [m EXCEPT !.attrs.whistleCount = c],
         req |-> IF c < 5 THEN NoneID ELSE ChewingGum]

\* the entry hook of each state class: the counter it resets
demo_entry(at, state_id) ==
    IF state_id = Sitting THEN [at EXCEPT !.sittingCount = 0]
    ELSE IF state_id = Running THEN [at EXCEPT !.runCount = 0]
    ELSE IF state_id = ChewingGum THEN [at EXCEPT !.chewingGumCount = 0]
    ELSE IF state_id = Whistling THEN [at EXCEPT !.whistleCount = 0]
    ELSE at

\* ------------------------------------------------- the daemon's chart
\* AppStates of anybody_home.py: MAYBE has the value the engine reserves
MAYBE == 0
AWAY == 1
HOME == 2

DAEMON_CHART ==
    (MAYBE :> [stateClass |-> "MaybeState"]) @@
    (AWAY  :> [stateClass |-> "AwayState"]) @@
    (HOME  :> [stateClass |-> "HomeState"])

DaemonIds == DOMAIN DAEMON_CHART

\* the size of the universe the configured devices are taken from
MaxDevices == 4

Devices == 1..MaxDevices

\* set_transitions of MaybeState, AwayState and HomeState, in list order
DAEMON_TRANSITIONS ==
    (MAYBE :> << [stateID |-> HOME, check |-> "check_home"],
                 [stateID |-> AWAY, check |-> "check_away"] >>) @@
    (AWAY  :> << [stateID |-> HOME, check |-> "check_home"],
                 [stateID |-> MAYBE, check |-> "check_maybe"] >>) @@
    (HOME  :> << [stateID |-> MAYBE, check |-> "home_check_maybe"] >>)

\* a HomeState whose check has the sense of its name turned around
daemon_check_inverted(name, d) ==
    IF name = "home_check_maybe" THEN ~d.anybody_home ELSE TRUE

\* the check methods: HomeState.check_maybe reads anybody_home, the others
\* return True
daemon_check(name, d) ==
    IF name = "home_check_maybe" THEN d.anybody_home ELSE TRUE

\* FiniteState.transitioning over the daemon's checks
RECURSIVE daemon_transitioning(_, _)
daemon_transitioning(transitions, d) ==
    IF transitions = <<>> THEN NoneID
    ELSE IF daemon_check(Head(transitions).check, d)
         THEN Head(transitions).stateID
         ELSE daemon_transitioning(Tail(transitions), d)

\* AnybodyHomeState.poll: ping every monitored device, write the roll call
\* and whether anybody answered; luck.answered is the set of devices that do
daemon_poll(m) ==
    [m.data EXCEPT !.roll_call = m.luck.answered \cap m.attrs.monitored_devices,
                   !.anybody_home = (m.luck.answered \cap m.attrs.monitored_devices) # {}]

\* Periodic.check(current_data), of the module periodic: runs the callback it
\* was built with when its period has gone by (luck.due), does nothing else
periodic_check(m) == IF m.luck.due THEN daemon_poll(m) ELSE m.data

\* the steady hooks: HomeState.steady checks its Periodic first
daemon_steady(m, state_id) ==
    IF state_id = HOME
    THEN IF m.attrs.poll_check[HOME] # "Periodic"
         THEN [m |-> [m EXCEPT !.err = "AttributeError"], req |-> NoneID]
         ELSE LET d == periodic_check(m) IN
              [m |-> [m EXCEPT !.data = d],
               req |-> daemon_transitioning(DAEMON_TRANSITIONS[HOME], d)]
    ELSE [m |-> m, req |-> daemon_transitioning(DAEMON_TRANSITIONS[state_id], m.data)]

\* the entry hooks: AwayState and HomeState write anybody_home into the data
\* they are given (None has no items), each sets its poll_check
daemon_entry(m, state_id, arg) ==
    IF state_id = MAYBE THEN [m EXCEPT !.attrs.poll_check[MAYBE] = "Periodic"]
    ELSE IF arg = "None" THEN [m EXCEPT !.err = "TypeError"]
    ELSE [m EXCEPT !.data.anybody_home = (state_id = HOME),
                   !.attrs.poll_check[state_id] = "Periodic"]

\* AnybodyHomeState.exit: del self.poll_check
daemon_exit(m, state_id) ==
    IF m.attrs.poll_check[state_id] = "deleted" THEN [m EXCEPT !.err = "AttributeError"]
    ELSE [m EXCEPT !.attrs.poll_check[state_id] = "deleted"]

\* the steady hook of the state's class
app_steady(m, state_id) ==
    IF m.prog = "demo" THEN demo_steady(m, state_id) ELSE daemon_steady(m, state_id)

\* the entry hook of the state's class
app_entry(m, state_id, arg) ==
    IF m.prog = "demo" THEN [m EXCEPT !.attrs = demo_entry(@, state_id)]
    ELSE daemon_entry(m, state_id, arg)

\* the exit hook of the state's class (the demo's classes keep FiniteState's)
app_exit(m, state_id) ==
    IF m.prog = "demo" THEN m ELSE daemon_exit(m, state_id)

\* state_instance, on the machine's chart
app_state_instance(m, state_id) ==
    IF state_id \in m.inst THEN m
    ELSE [m EXCEPT !.inst = @ \cup {state_id}, !.made = Append(@, state_id)]

\* a _set_state that forgets the default child
app_set_state_no_drill(m, state_id, arg, level, req) ==
    LET m1 == app_state_instance(m, state_id)
        m2 == app_entry([m1 EXCEPT !.log = Append(@,
                  LogEntry("entry", state_id, m1.stack, level, req, arg, ""))],
                  state_id, arg)
    IN IF m2.err # "none" THEN m2 ELSE [m2 EXCEPT !.stack = Append(@, state_id)]

\* _set_state, with the entry hooks of the application's classes
RECURSIVE app_set_state(_, _, _, _, _)
app_set_state(m, state_id, arg, level, req) ==
    LET m1 == app_state_instance(m, state_id)
        m2 == app_entry([m1 EXCEPT !.log = Append(@,
                  LogEntry("entry", state_id, m1.stack, level, req, arg, ""))],
                  state_id, arg)
        m3 == [m2 EXCEPT !.stack = Append(@, state_id)]
    IN IF m2.err # "none" THEN m2
       ELSE IF "defaultChild" \in DOMAIN m.chart[state_id]
       THEN app_set_state(m3, m.chart[state_id].defaultChild, "None", level, req)
       ELSE m3

\* iterate, lines 243-246, with the exit hooks of the application's classes
RECURSIVE app_exit_states(_, _, _, _)
app_exit_states(m, level, state_index, req) ==
    IF state_index < level \/ m.err # "none" THEN m
    ELSE
      LET this_id == m.stack[state_index + 1]
          m1 == app_state_instance(m, this_id)
          m2 == app_exit([m1 EXCEPT !.log = Append(@,
                    LogEntry("exit", this_id, m1.stack, level, req, "data", ""))],
                    this_id)
      IN IF m2.err # "none" THEN m2
         ELSE app_exit_states([m2 EXCEPT !.stack = Front(@)], level, state_index - 1, req)

\* iterate, with the steady hooks of the application's classes
RECURSIVE app_iterate(_, _)
RECURSIVE app_iterate_loop(_, _, _)
app_iterate_loop(r, level, n) ==
    IF n = 0 \/ r.m.err # "none" THEN r
    ELSE app_iterate_loop(app_iterate(r.m, level + 1), level, n - 1)

app_iterate(m, level) ==
    IF level + 1 > Len(m.stack)
    THEN [m |-> [m EXCEPT !.err = "IndexError"], terminate |-> FALSE]
    ELSE
      LET cur_state_id == m.stack[level + 1]
          m1 == app_state_instance(m, cur_state_id)
          s == app_steady(m1, cur_state_id)
          m2 == [s.m EXCEPT !.log = Append(@,
                    LogEntry("steady", cur_state_id, m1.stack, level, s.req, "data",
                             IF s.m.err = "none" THEN "" ELSE "raise"))]
          r == app_iterate_loop([m |-> m2, terminate |-> FALSE], level,
                                Len(m2.stack) - (level + 1))
      IN IF m2.err # "none" THEN [m |-> m2, terminate |-> FALSE]
         ELSE IF r.m.err # "none" THEN r
         ELSE IF ~r.terminate /\ s.req # NoneID
         THEN LET m3 == app_exit_states(r.m, level, Len(r.m.stack) - 1, s.req) IN
              IF m3.err # "none" THEN [m |-> m3, terminate |-> FALSE]
              ELSE IF s.req = 0
              THEN [m |-> m3, terminate |-> TRUE]
              ELSE [m |-> app_set_state(m3, s.req, "data", level, s.req),
                    terminate |-> FALSE]
         ELSE r

\* the demo program up to sce = StateChartEngine(STATE_CHART, notifier) and
\* app_data = dict(tired=random_bool(), ...)
InitDemo ==
    /\ stack = <<>>
    /\ instances = {}
    /\ app_data \in DemoData
    /\ log = <<>>
    /\ prev = <<>>
    /\ call = [op |-> "none", state_id |-> NoneID]
    /\ result = "none"
    /\ pc = "constructed"
    /\ balance = [id \in StateIds |-> 0]
    /\ definition = [chart |-> DEMO_CHART,
                     order |-> <<Sitting, Walking, Running, ChewingGum, Whistling>>]
    /\ ctor = check(definition.chart, definition.order)
    /\ ctor.status = "ok"
    /\ constructions = [id \in StateIds |-> 0]
    /\ attrs = DemoAttrs

\* sce.init(AppStates.Sitting)
DemoInitCall ==
    /\ pc = "constructed"
    /\ LET m == app_set_state(Machine("demo", DEMO_CHART, stack, instances, app_data,
                                      attrs, FALSE),
                              Sitting, "None", -1, NoneID) IN
       /\ stack' = m.stack
       /\ instances' = m.inst
       /\ log' = m.log
       /\ attrs' = m.attrs
       /\ balance' = [id \in StateIds |-> balance[id] + HookDelta(m.log, id)]
       /\ constructions' = [id \in StateIds |->
                               constructions[id] + Occurrences(m.made, id)]
    /\ prev' = stack
    /\ call' = [op |-> "init", state_id |-> Sitting]
    /\ result' = "none"
    /\ pc' = "running"
    /\ UNCHANGED <<app_data, definition, ctor>>

\* what the loop may do to the data before a pass: panicked = random_bool()
DemoChanges(d) == {[d EXCEPT !.panicked = b] : b \in BOOLEAN}

\* one pass of the demo's loop; BitTongueError is caught and ends the loop
DemoIterateCall(d, bite) ==
    /\ pc = "running"
    /\ LET r == app_iterate(Machine("demo", DEMO_CHART, stack, instances, d, attrs,
                                    bite), 0) IN
       /\ stack' = r.m.stack
       /\ instances' = r.m.inst
       /\ log' = r.m.log
       /\ attrs' = r.m.attrs
       /\ app_data' = r.m.data
       /\ balance' = [id \in StateIds |-> balance[id] + HookDelta(r.m.log, id)]
       /\ constructions' = [id \in StateIds |->
                               constructions[id] + Occurrences(r.m.made, id)]
       /\ result' = IF r.m.err # "none" THEN r.m.err
                    ELSE IF r.terminate THEN "True" ELSE "False"
       /\ pc' = IF r.m.err = "BitTongueError" \/ r.terminate THEN "terminated"
                ELSE IF r.m.err # "none" THEN "crashed" ELSE "running"
    /\ prev' = stack
    /\ call' = [op |-> "iterate", state_id |-> NoneID]
    /\ UNCHANGED <<definition, ctor>>

NextDemo ==
    \/ DemoInitCall
    \/ \E d \in DemoChanges(app_data), bite \in BOOLEAN : DemoIterateCall(d, bite)

SpecDemo == InitDemo /\ [][NextDemo]_vars

\* ------------------------------------------------------- the daemon's run
\* main() up to run_state_machine's app_data = dict(roll_call={},
\* anybody_home=False), for any set of monitored devices in the configuration
InitDaemon ==
    /\ stack = <<>>
    /\ instances = {}
    /\ app_data = [roll_call |-> {}, anybody_home |-> FALSE]
    /\ log = <<>>
    /\ prev = <<>>
    /\ call = [op |-> "none", state_id |-> NoneID]
    /\ result = "none"
    /\ pc = "constructed"
    /\ balance = [id \in DaemonIds |-> 0]
    /\ definition = [chart |-> DAEMON_CHART, order |-> <<MAYBE, AWAY, HOME>>]
    /\ ctor = check(definition.chart, definition.order)
    /\ ctor.status = "ok"
    /\ constructions = [id \in DaemonIds |-> 0]
    /\ attrs \in [poll_check : {[id \in DaemonIds |-> "None"]},
                  monitored_devices : SUBSET Devices]

\* sce.init(AppStates.MAYBE)
DaemonInitCall ==
    /\ pc = "constructed"
    /\ LET m == app_set_state(Machine("daemon", DAEMON_CHART, stack, instances, app_data,
                                      attrs, [due |-> FALSE, answered |-> {}]),
                              MAYBE, "None", -1, NoneID) IN
       /\ stack' = m.stack
       /\ instances' = m.inst
       /\ log' = m.log
       /\ attrs' = m.attrs
       /\ app_data' = m.data
       /\ balance' = [id \in DaemonIds |-> balance[id] + HookDelta(m.log, id)]
       /\ constructions' = [id \in DaemonIds |->
                               constructions[id] + Occurrences(m.made, id)]
       /\ result' = m.err
       /\ pc' = IF m.err # "none" THEN "crashed" ELSE "running"
    /\ prev' = stack
    /\ call' = [op |-> "init", state_id |-> MAYBE]
    /\ UNCHANGED <<definition, ctor>>

\* what time and the network may decide during one pass: the poll is not due,
\* or it is due and some of the monitored devices answer
Lucks(at) ==
    {[due |-> FALSE, answered |-> {}]}
    \cup {[due |-> TRUE, answered |-> R] : R \in SUBSET at.monitored_devices}

\* one pass of run_state_machine's loop: terminated = sce.iterate(app_data)
DaemonIterateCall(luck) ==
    /\ pc = "running"
    /\ LET r == app_iterate(Machine("daemon", DAEMON_CHART, stack, instances, app_data,
                                    attrs, luck), 0) IN
       /\ stack' = r.m.stack
       /\ instances' = r.m.inst
       /\ log' = r.m.log
       /\ attrs' = r.m.attrs
       /\ app_data' = r.m.data
       /\ balance' = [id \in DaemonIds |-> balance[id] + HookDelta(r.m.log, id)]
       /\ constructions' = [id \in DaemonIds |->
                               constructions[id] + Occurrences(r.m.made, id)]
       /\ result' = IF r.m.err # "none" THEN r.m.err
                    ELSE IF r.terminate THEN "True" ELSE "False"
       /\ pc' = IF r.m.err # "none" THEN "crashed"
                ELSE IF r.terminate THEN "terminated" ELSE "running"
    /\ prev' = stack
    /\ call' = [op |-> "iterate", state_id |-> NoneID]
    /\ UNCHANGED <<definition, ctor>>

NextDaemon ==
    \/ DaemonInitCall
    \/ \E luck \in Lucks(attrs) : DaemonIterateCall(luck)

SpecDaemon == InitDaemon /\ [][NextDaemon]_vars

\* ------------------------------------------------------ reading the log
Min(S) == CHOOSE x \in S : \A y \in S : x <= y
Max(S) == CHOOSE x \in S : \A y \in S : x >= y

\* the indices of the log holding a given kind of event
Events(op) == {i \in DOMAIN log : log[i].op = op}

\* the last iterate call returned to the caller (no exception)
Returned == call.op = "iterate" /\ result \in {"True", "False"}

\* an exit of the requesting state itself: the last exit of one applied
\* transition (the stack then holds exactly the frame's levels)
AppliedExits == {i \in Events("exit") : Len(log[i].stk) = log[i].level + 1}

\* steady calls that returned a transition request
Requests == {i \in Events("steady") : log[i].req # NoneID}

\* the default-child chain below a state, as the chart definition gives it
RECURSIVE DefaultChain(_)
DefaultChain(state_id) ==
    IF "defaultChild" \in DOMAIN STATE_CHART[state_id]
    THEN <<state_id>> \o DefaultChain(STATE_CHART[state_id].defaultChild)
    ELSE <<state_id>>

\* ------------------------------------------------------------------ C1
\* C1: in one top-level iterate call every state on the active path at the
\* start of the call receives exactly one steady call, an ancestor's before
\* each of its descendants', at any depth of the path.
C1_OneSteadyPerActiveState ==
    Returned =>
      /\ \A id \in Range(prev) :
           Cardinality({i \in Events("steady") : log[i].id = id}) = Occurrences(prev, id)
      /\ \A a, b \in DOMAIN prev :
           a < b => \A i, j \in Events("steady") :
                       (log[i].level = a - 1 /\ log[j].level = b - 1 /\ log[i].id = prev[a]
                        /\ log[j].id = prev[b]) => i < j

\* ------------------------------------------------------------------ C2
\* C2: a single top-level iterate call applies at most one transition (one
\* exit sequence, one activation of a requested target), even when an
\* ancestor and a descendant both request one.
C2_AtMostOneTransition ==
    call.op = "iterate" =>
      /\ Cardinality(AppliedExits) <= 1
      /\ Cardinality({i \in Events("entry") : log[i].arg = "data"}) <= 1

\* ------------------------------------------------------------------ C3
\* C3: when several states of the active path request a transition in one
\* iterate call and nothing terminates, only the deepest requester's request
\* is honored: the path after the call is the ancestors of that state followed
\* by its target's default-child chain.
C3_DeepestRequestHonored ==
    (/\ Returned /\ result = "False"
     /\ Cardinality({log[i].level : i \in Requests}) > 1
     /\ \A i \in Requests : log[i].req # Terminating)
    => LET deep == Max({log[i].level : i \in Requests})
           first == Min({i \in Requests : log[i].level = deep})
       IN stack = SubSeq(prev, 1, deep) \o DefaultChain(log[first].req)

\* ------------------------------------------------------------------ C4
\* C4: in every state reached by init and iterate calls, each state of the
\* active stack is, by the chart definition, the child of the one below it.
C4_ParentLinks ==
    \A i \in 1..(Len(stack) - 1) :
       /\ "parent" \in DOMAIN STATE_CHART[stack[i + 1]]
       /\ STATE_CHART[stack[i + 1]].parent = stack[i]

\* ------------------------------------------------------------------ C5
\* C5: after init(S) on an empty engine the active stack is S followed by its
\* default-child chain, and entry was called exactly once on each state of
\* the chain, outer to inner, each before that state was pushed.
C5_InitDrillsDown ==
    call.op = "init" =>
      LET chain == DefaultChain(call.state_id) IN
      /\ stack = chain
      /\ Len(log) = Len(chain)
      /\ \A i \in DOMAIN chain :
           /\ log[i].op = "entry"
           /\ log[i].id = chain[i]
           /\ log[i].stk = SubSeq(chain, 1, i - 1)

C5_Witness ==
    call.op = "init" /\ call.state_id = Outer /\ prev = <<>> /\ Len(stack) = 3

\* ------------------------------------------------------------------ C6
\* C6: when a transition requested by a state is applied, exit is called on
\* the innermost active state first, each state is popped as it exits, the
\* exits run outwards without interruption down to the requesting state
\* itself, and only then is entry called on the target.
C6_ExitInnermostFirst ==
    \A i \in Events("exit") :
       LET x == log[i] IN
       /\ x.stk # <<>> /\ x.id = Last(x.stk)
       /\ Len(x.stk) >= x.level + 1
       /\ x.stk[x.level + 1] \in {log[j].id : j \in {k \in Requests :
              k < i /\ log[k].level = x.level /\ log[k].req = x.req}}
       /\ i < Len(log)
       /\ IF Len(x.stk) > x.level + 1
          THEN /\ log[i + 1].op = "exit"
               /\ log[i + 1].stk = Front(x.stk)
               /\ log[i + 1].level = x.level
               /\ log[i + 1].req = x.req
          ELSE IF x.req = Terminating
          THEN log[i + 1].op = "return"
          ELSE /\ log[i + 1].op = "entry"
               /\ log[i + 1].id = x.req
               /\ log[i + 1].stk = Front(x.stk)

\* the three-level path left on a request of its root: Inner, Middle and
\* Outer exit in that order, then the target is entered
C6_Witness ==
    /\ call.op = "iterate" /\ prev = <<Outer, Middle, Inner>>
    /\ \E i \in Events("exit") :
         /\ log[i].level = 0 /\ log[i].stk = <<Outer, Middle, Inner>>
         /\ i + 3 <= Len(log)
         /\ log[i + 2].op = "exit" /\ log[i + 2].id = Outer
         /\ log[i + 3].op = "entry"

\* ------------------------------------------------------------------ C7
\* C7: when the honored transition target is the reserved terminal id,
\* iterate returns terminated, no entry hook is called for that id, no state
\* instance is created for it and it is never pushed onto the active stack.
C7_TerminalTargetTerminates ==
    call.op = "iterate" =>
      /\ Terminating \notin instances
      /\ Terminating \notin Range(stack)
      /\ \A i \in Events("entry") : log[i].id # Terminating
      /\ \A i \in AppliedExits : log[i].req = Terminating => result = "True"

\* What does hold of the terminal id: it is never instantiated, entered or
\* pushed, and the frame that honors it returns True right after its exits;
\* the caller sees True whenever that frame is the top-level one.
TerminalIdNeverActivated ==
    /\ Terminating \notin instances
    /\ Terminating \notin Range(stack)
    /\ \A i \in DOMAIN log :
         /\ Terminating \notin Range(log[i].stk)
         /\ log[i].op = "entry" => log[i].id # Terminating
    /\ \A i \in AppliedExits :
         log[i].req = Terminating =>
           /\ i < Len(log)
           /\ log[i + 1].op = "return"
           /\ log[i + 1].level = log[i].level
           /\ log[i + 1].ret = "True"
           /\ log[i].level = 0 => (result = "True" /\ pc = "terminated" /\ stack = <<>>)

\* ------------------------------------------------------------------ C8
\* C8: if any nested level signals termination during an iterate call, no
\* transition requested by a shallower level is applied in that call and the
\* top-level call returns terminated, at any depth of the active path.
C8_NestedTerminationPropagates ==
    Returned =>
      \A i \in Events("return") :
         (log[i].level >= 1 /\ log[i].ret = "True") =>
            /\ result = "True"
            /\ \A j \in Events("exit") : j > i => log[j].level >= log[i].level

\* ------------------------------------------------------------------ C9
\* C9: if no check in the transition table of any active state is true
\* during an iterate call, the active stack after the call equals the stack
\* before it, no entry or exit hook is called and iterate returns False.
NoCheckTrue(d, stk) ==
    \A id \in Range(stk) :
       \A k \in DOMAIN TRANSITIONS[id] : ~d[TRANSITIONS[id][k].check]

C9_NoMatchNoChange ==
    (call.op = "iterate" /\ NoCheckTrue(app_data, prev)) =>
       /\ stack = prev
       /\ result = "False"
       /\ Events("entry") = {}
       /\ Events("exit") = {}

C9_Witness ==
    /\ call.op = "iterate" /\ NoCheckTrue(app_data, prev)
    /\ prev = <<Outer, Middle, Inner>>
    /\ \E k \in Keys : app_data[k]

\* ----------------------------------------------------------------- C10
\* C10: a transition table is evaluated in list order and the target of the
\* first true check is returned whatever the later checks say, none when no
\* check is true; with Solo alone active and both of its checks true one
\* iterate call moves to the first target (Outer) and never to the second.
FirstMatch(state_id, d) ==
    LET hits == {k \in DOMAIN TRANSITIONS[state_id] : d[TRANSITIONS[state_id][k].check]}
    IN IF hits = {} THEN NoneID ELSE TRANSITIONS[state_id][Min(hits)].stateID

C10_FirstTrueCheckWins ==
    call.op = "iterate" =>
      /\ \A i \in Events("steady") : log[i].req = FirstMatch(log[i].id, app_data)
      /\ (prev = <<Solo>> /\ app_data["s1"] /\ app_data["s2"]) =>
            /\ stack = DefaultChain(Outer)
            /\ \A i \in Events("entry") : log[i].id # InnerAlt

C10_Witness ==
    /\ call.op = "iterate" /\ prev = <<Solo>>
    /\ app_data["s1"] /\ app_data["s2"]
    /\ stack[1] = Outer

\* ----------------------------------------------------------------- C11
\* C11: across one init and any number of iterate calls every push comes
\* with one entry call and every pop with one exit call on the same state, so
\* each state's entry and exit calls alternate starting with entry, and a
\* state is on the active stack exactly when it has received one more entry
\* than exit.
C11_EntryExitAlternate ==
    /\ \A i \in Events("entry") : log[i].id \notin Range(log[i].stk)
    /\ \A i \in Events("exit") : log[i].id = Last(log[i].stk)
    /\ \A id \in StateIds :
         /\ balance[id] \in {0, 1}
         /\ id \in Range(stack) <=> balance[id] = 1

\* What does hold: hook calls and stack operations are paired, so the
\* entries minus the exits of a state count its occurrences on the stack.
HooksPairedWithStack ==
    \A id \in StateIds : balance[id] = Occurrences(stack, id)

\* ----------------------------------------------------------------- C12
\* C12: every lifecycle call the engine makes during iterate (entry, steady
\* and exit) receives the caller's application data, in particular the entry
\* of every state entered by default-child drill-down during a transition.
C12_HooksReceiveData ==
    call.op = "iterate" =>
      \A i \in DOMAIN log : log[i].op \in {"entry", "steady", "exit"} => log[i].arg = "data"

\* ------------------------------------------------- reading a definition
\* the (parent, child) pairs of a definition whose parent is no key
MissingParentPairs(chart) ==
    {<<chart[c].parent, c>> : c \in {k \in DOMAIN chart :
        "parent" \in DOMAIN chart[k] /\ chart[k].parent \notin DOMAIN chart}}

\* the (parent, child) pairs whose defaultChild link is not acknowledged: the
\* child is no key, declares no parent or declares another parent
BadDefaultChildPairs(chart) ==
    {<<p, chart[p].defaultChild>> : p \in {k \in DOMAIN chart :
        /\ "defaultChild" \in DOMAIN chart[k]
        /\ LET c == chart[k].defaultChild IN
           \/ c \notin DOMAIN chart
           \/ "parent" \notin DOMAIN chart[c]
           \/ chart[c].parent # k}}

Constructed == pc # "start"

\* ----------------------------------------------------------------- C13
\* C13: for every definition in which each parent is a key and each
\* defaultChild is a key whose own parent is the referring state, the
\* constructor raises nothing and leaves the stack and the cache empty.
C13_ValidChartConstructs ==
    (/\ Constructed /\ call.op = "none"
     /\ MissingParentPairs(definition.chart) = {}
     /\ BadDefaultChildPairs(definition.chart) = {})
    => /\ ctor.status = "ok"
       /\ pc = "constructed"
       /\ stack = <<>>
       /\ instances = {}

C13_Witness ==
    /\ pc = "constructed" /\ ctor.status = "ok"
    /\ "defaultChild" \in DOMAIN definition.chart[1]
    /\ definition.chart[1].defaultChild = 2
    /\ stack = <<>> /\ instances = {}

\* ----------------------------------------------------------------- C14
\* C14: for every definition in which some state's parent is no key, the
\* constructor fails with InconsistentStateChart whose fields are a missing
\* parent id and the child referring to it (the first one in dict order), and
\* the caller gets no engine.
C14_MissingParentRejected ==
    (Constructed /\ MissingParentPairs(definition.chart) # {})
    => /\ ctor.status = "InconsistentStateChart"
       /\ <<ctor.parent, ctor.child>> \in MissingParentPairs(definition.chart)
       /\ \A i, j \in DOMAIN definition.order :
            (definition.order[j] = ctor.child /\ i < j)
               => \A p \in References :
                     <<p, definition.order[i]>> \notin MissingParentPairs(definition.chart)
       /\ pc = "failed"

C14_Witness ==
    /\ pc = "failed"
    /\ ctor = Outcome("InconsistentStateChart", MissingKey, 2)
    /\ Cardinality(MissingParentPairs(definition.chart)) = 2

\* ----------------------------------------------------------------- C15
\* C15: for every definition in which some defaultChild is no key, or the
\* default child's own parent is not the referring state (or is absent), the
\* constructor fails with InconsistentStateChart, and with no other kind of
\* error, carrying exactly such a (parent, child) pair.
C15_BadDefaultChildRejected ==
    (Constructed /\ BadDefaultChildPairs(definition.chart) # {})
    => /\ ctor.status = "InconsistentStateChart"
       /\ MissingParentPairs(definition.chart) = {}
            => <<ctor.parent, ctor.child>> \in BadDefaultChildPairs(definition.chart)

\* ----------------------------------------------------------------- C16
\* C16: across state_instance, init and iterate calls in any order the
\* behaviour object of a state id is constructed at most once (every later
\* reference, by the application or by a re-entry, gets the cached one), the
\* cache holds exactly the ids constructed, and it only ever grows.
C16_InstanceConstructedOnce ==
    /\ [](\A id \in StateIds :
            /\ constructions[id] <= 1
            /\ id \in instances <=> constructions[id] = 1)
    /\ [][instances \subseteq instances']_vars

\* the application asks for the object of a state that is active, hence
\* already constructed by the engine
C16_Witness ==
    /\ call.op = "state_instance"
    /\ call.state_id \in Range(stack)
    /\ constructions[call.state_id] = 1

\* ----------------------------------------------------------------- C17
\* C17: after init the stack is non-empty as long as every iterate call has
\* returned not-terminated; it is empty only before init or after an iterate
\* call that returned terminated.
C17_StackEmptyOnlyAtEnds ==
    /\ pc = "running" => stack # <<>>
    /\ stack = <<>> => \/ pc = "constructed"
                       \/ call.op = "iterate" /\ result = "True"

C17_Witness ==
    /\ call.op = "iterate" /\ result = "False" /\ pc = "running"
    /\ Events("exit") # {}
    /\ Len(prev) = 3
    /\ stack # <<>>

\* ----------------------------------------------------------------- C18
\* the entries of requested targets (the drill-down below them gets no data)
TargetEntries == {j \in Events("entry") : log[j].arg = "data"}

\* the first exit of the exit sequence that ends just before index j
RunStart(j) ==
    Min({f \in 1..(j - 1) :
           \A m \in f..(j - 1) : log[m].op = "exit" /\ log[m].level = log[j].level})

\* C18 as stated: a transition that is applied empties the stack, whichever
\* state requested it, and only then is the target entered.
C18_StackEmptiedBeforeTarget ==
    /\ \A i \in AppliedExits : log[i].req # Terminating => Front(log[i].stk) = <<>>
    /\ \A j \in TargetEntries : log[j].stk = <<>>

\* C18 corrected: when the frame of level L applies a request and the machine
\* has not terminated, exit is called on the states at stack positions above
\* and at L, innermost first down to the requesting state, each popped as it
\* exits; the L states below it stay; only then is the target activated on
\* top of them by the default-child drill-down of init.  A request of the
\* root state (L = 0) empties the stack.
C18_ExitsDownToRequester ==
    \A j \in TargetEntries :
       LET L == log[j].level
           chain == DefaultChain(log[j].id)
       IN /\ j > 1 /\ log[j - 1].op = "exit" /\ log[j - 1].level = L
          /\ LET f == RunStart(j)
                 before == log[f].stk
             IN /\ j - f = Len(before) - L
                /\ \A m \in f..(j - 1) :
                      /\ log[m].stk = SubSeq(before, 1, Len(before) - (m - f))
                      /\ log[m].id = Last(log[m].stk)
                /\ log[j].stk = SubSeq(before, 1, L)
          /\ L = 0 => log[j].stk = <<>>
          /\ j + Len(chain) <= Len(log)
          /\ \A n \in DOMAIN chain :
                /\ log[j + n - 1].op = "entry"
                /\ log[j + n - 1].id = chain[n]
                /\ log[j + n - 1].stk = log[j].stk \o SubSeq(chain, 1, n - 1)
          /\ log[j + Len(chain)].op = "return"
          /\ log[j + Len(chain)].stk = log[j].stk \o chain

\* Inner, nested two levels down, asks for its sibling: only Inner exits and
\* InnerAlt is entered above Outer and Middle
C18_Witness ==
    /\ call.op = "iterate" /\ prev = <<Outer, Middle, Inner>>
    /\ stack = <<Outer, Middle, InnerAlt>>
    /\ \E j \in TargetEntries :
          /\ log[j].id = InnerAlt /\ log[j].level = 2
          /\ log[j].stk = <<Outer, Middle>>

\* ----------------------------------------------------------------- C19
\* the steady calls that raised
Raised == {i \in Events("steady") : log[i].ret = "raise"}

\* C19: an exception raised by a steady hook during iterate reaches the
\* caller: the call ends with it, the hook is not called again and no other
\* hook is called (nor any frame returns) after it in that iterate call.
C19_SteadyErrorPropagates ==
    call.op = "iterate" =>
      /\ Raised # {} => /\ result = "BitTongueError"
                        /\ Raised = {Len(log)}
                        /\ stack = log[Len(log)].stk
                        /\ pc = "crashed"
      /\ result = "BitTongueError" => Raised # {}

\* the hook of the innermost state raises on its second call of the pass,
\* after the pass has already run other hooks
C19_Witness ==
    /\ call.op = "iterate" /\ result = "BitTongueError"
    /\ Len(log) > 3
    /\ log[Len(log)].level = 2 /\ log[Len(log)].ret = "raise"

\* ----------------------------------------------------------------- C20
\* C20: iterate on an engine on which init was not called fails with an
\* error: no hook is invoked, no state instance is created, the stack stays
\* empty and neither terminated nor not-terminated is returned.
C20_IterateBeforeInitFails ==
    [][(pc = "constructed" /\ call'.op = "iterate")
         => /\ result' = "IndexError"
            /\ result' \notin {"True", "False"}
            /\ log' = <<>>
            /\ balance' = balance
            /\ instances' = instances
            /\ constructions' = constructions
            /\ stack = <<>> /\ stack' = <<>>]_vars

C20_Witness ==
    /\ call.op = "iterate" /\ prev = <<>>
    /\ result = "IndexError" /\ pc = "crashed"
    /\ stack = <<>> /\ log = <<>>

\* ----------------------------------------------------------------- C21
\* C21: on every chart the constructor accepts, init(S) of every state S
\* terminates: the drill-down enters no state twice and ends at a state
\* without defaultChild, leaving a finite stack, cyclic and self-referring
\* charts that satisfy the reciprocity check included.
C21_InitTerminates ==
    (call.op = "init" /\ ctor.status = "ok")
    => /\ result # "RecursionError"
       /\ \A id \in Range(stack) : Occurrences(stack, id) = 1
       /\ "defaultChild" \notin DOMAIN definition.chart[Last(stack)]

\* --------------------------------------------------------- the demo run
\* the entry and exit calls of the last call, in order
RECURSIVE HookCalls(_)
HookCalls(lg) ==
    IF lg = <<>> THEN <<>>
    ELSE IF Head(lg).op \in {"entry", "exit"}
         THEN <<<<Head(lg).op, Head(lg).id>>>> \o HookCalls(Tail(lg))
         ELSE HookCalls(Tail(lg))

\* ----------------------------------------------------------------- C22
\* C22: on the demo chart with restless true, panicked false and tired false,
\* the first iterate call after Sitting was entered leaves the path at
\* [Walking, ChewingGum], returns not-terminated and calls Sitting.exit,
\* Walking.entry, ChewingGum.entry in that order and no other entry or exit.
C22_SittingToWalking ==
    (/\ call.op = "iterate" /\ prev = <<Sitting>>
     /\ attrs.sittingCount = 1
     /\ app_data = [tired |-> FALSE, panicked |-> FALSE, restless |-> TRUE])
    => /\ stack = <<Walking, ChewingGum>>
       /\ result = "False"
       /\ HookCalls(log) = << <<"exit", Sitting>>, <<"entry", Walking>>,
                              <<"entry", ChewingGum>> >>

\* the very first pass of the program
C22_Witness ==
    /\ call.op = "iterate" /\ prev = <<Sitting>>
    /\ attrs.sittingCount = 1
    /\ app_data = [tired |-> FALSE, panicked |-> FALSE, restless |-> TRUE]
    /\ instances = {Sitting, Walking, ChewingGum}
    /\ stack = <<Walking, ChewingGum>>

\* ----------------------------------------------------------------- C23
\* C23: whenever Running is the active state and its steady hook sees
\* panicked false or tired true, the iterate call moves the machine from
\* Running to Sitting.
C23_RunningToSitting ==
    (/\ call.op = "iterate" /\ prev = <<Running>>
     /\ ~app_data.panicked \/ app_data.tired)
    => stack = <<Sitting>>

\* ----------------------------------------------------------------- C24
\* C24: whenever a top-level iterate call returns terminated the active
\* stack is empty and every state that was on the stack when the terminal
\* target was requested has received exit, innermost first, also when the
\* terminal id was targeted by a nested state.
C24_TerminatedLeavesNothingActive ==
    (call.op = "iterate" /\ result = "True")
    => /\ stack = <<>>
       /\ \A r \in {k \in Requests : log[k].req = Terminating} :
            \A n \in DOMAIN log[r].stk :
               \E i \in Events("exit") :
                  /\ i > r /\ log[i].id = log[r].stk[n] /\ Len(log[i].stk) = n
                  /\ \A j \in Events("exit") :
                       (j > r /\ Len(log[j].stk) > n) => j < i

\* ----------------------------------------------------------------- C25
\* C25: if a steady hook raises during an iterate call, the active stack
\* after the failed call is the stack before the call and no entry or exit
\* hook was called in that call, at any depth of the path.
C25_FailedCallChangesNothing ==
    (call.op = "iterate" /\ result = "BitTongueError")
    => /\ stack = prev
       /\ Events("entry") = {}
       /\ Events("exit") = {}

C27_SittingLeftBySixthCall ==
    /\ (pc = "running" /\ stack = <<Sitting>>) => attrs.sittingCount \in 0..5
    /\ (call.op = "iterate" /\ prev = <<Sitting>> /\ attrs.sittingCount >= 6)
       => /\ attrs.sittingCount = 6
          /\ app_data.restless /\ ~app_data.tired
          /\ stack = IF app_data.panicked THEN <<Running>>
                     ELSE <<Walking, ChewingGum>>

\* Sitting has sat through five calls and leaves on the sixth
C27_Witness ==
    /\ call.op = "iterate" /\ prev = <<Sitting>>
    /\ attrs.sittingCount = 6
    /\ stack = <<Running>>

\* ----------------------------------------------------------------- C28
\* C28: in the daemon's chart started with init(MAYBE) the active path is
\* [MAYBE], [HOME] or, after termination, empty; AWAY is never entered; and a
\* HOME steady evaluation that sees anybody_home true targets MAYBE, the
\* terminal value, so that iterate returns terminated with nothing active and
\* the loop ends without MAYBE being entered again.
C28_DaemonPaths ==
    /\ pc # "constructed" => stack \in {<<MAYBE>>, <<HOME>>, <<>>}
    /\ stack = <<>> => pc \in {"constructed", "terminated"}
    /\ AWAY \notin instances /\ balance[AWAY] = 0
    /\ \A i \in Events("entry") : log[i].id # AWAY
    /\ (call.op = "iterate" /\ prev = <<HOME>> /\ app_data.anybody_home)
       => /\ result = "True" /\ pc = "terminated"
          /\ stack = <<>>
          /\ Events("entry") = {}
          /\ \E i \in Events("steady") : log[i].id = HOME /\ log[i].req = MAYBE

\* the poll found a device at home and the daemon stopped
C28_Witness ==
    /\ call.op = "iterate" /\ prev = <<HOME>>
    /\ app_data.anybody_home /\ app_data.roll_call # {}
    /\ pc = "terminated" /\ stack = <<>>

====
